---- MODULE Spec2Model ----
(***************************************************************************)
(* Model of src/app.py: a Streamlit chat front end whose generate_response *)
(* runs the tool-calling dialogue loop against an LLM endpoint and the     *)
(* ICD-11 lookup capability query_icd_11_api.                              *)
(*                                                                         *)
(* A Streamlit script is re-run from the top on every widget interaction;  *)
(* st.session_state survives the re-runs.  One script run is modelled by   *)
(* the action of the interaction that caused it (Clear, EditPrompt,        *)
(* Submit); the run caused by "Send" is split at its external calls (LLM   *)
(* endpoint, token endpoint, search endpoint), the environment choosing    *)
(* each call's outcome.                                                    *)
(***************************************************************************)
EXTENDS Integers, Sequences, FiniteSets, TLC

----------------------------------------------------------------------------
(* Bounds *)

\* A turn may start while the transcript is shorter than this.
MaxTranscript == 4
\* The largest number of invocation requests one LLM response lists.
MaxToolCalls == 2
\* The largest number of destinationEntities in one search response.
MaxEntities == 1

----------------------------------------------------------------------------
(* Python values *)

\* Python's None.
None == [kind |-> "None"]

\* A Python str whose characters are not looked at by the program.
Str(s) == [kind |-> "str", text |-> s]

\* A Python str given by its characters.
Chars(cs) == [kind |-> "str", chars |-> cs]

\* A Python int.
PyInt(n) == [kind |-> "int", n |-> n]

\* A list value.
List(xs) == [kind |-> "list", items |-> xs]

\* A name that is not bound (a local never assigned, a key never set).
Unbound == [kind |-> "unbound"]

\* str.split(): the maximal runs of non-whitespace characters, in order.
RECURSIVE SplitAcc(_, _, _)
SplitAcc(s, cur, acc) ==
    IF s = <<>>
    THEN IF cur = <<>> THEN acc ELSE Append(acc, cur)
    ELSE IF Head(s) = " "
         THEN SplitAcc(Tail(s), <<>>, IF cur = <<>> THEN acc ELSE Append(acc, cur))
         ELSE SplitAcc(Tail(s), Append(cur, Head(s)), acc)

split(s) == SplitAcc(s, <<>>, <<>>)

\* word.replace(",", ""): the word without its commas.
IsNotComma(c) == c # ","
replace(word) == SelectSeq(word, IsNotComma)

\* json.dumps(code_mappings): the text that carries the mapping.
dumps(m) == [kind |-> "str", json |-> m]

\* f"The API could not handle this content: {str(e)}"
Format(e) == [kind |-> "str", fstring |-> "The API could not handle this content: ", e |-> e]

----------------------------------------------------------------------------
(* The environment's inputs *)

default_prompt == "You an assistant to a clinical coder"
Prompts == {default_prompt, "edited prompt"}

\* Non-empty texts typed into the "You:" box.
UserInputs == {"code fever", "hello"}

\* ENV["AZURE_OPENAI_DEPLOYMENT_NAME"]
DEPLOYMENT == "gpt-4"

\* The capability declarations handed to the first LLM call.
tools == <<[type |-> "function", name |-> "query_icd_11_api", required |-> <<"input">>]>>
\* A call made without the tools argument.
NoTools == <<>>

\* usage of a completion.
Usages == {[total_tokens |-> PyInt(30), prompt_tokens |-> PyInt(20), completion_tokens |-> PyInt(10)],
           [total_tokens |-> PyInt(7), prompt_tokens |-> PyInt(5), completion_tokens |-> PyInt(2)]}

FollowupUsages == {[total_tokens |-> PyInt(90), prompt_tokens |-> PyInt(80), completion_tokens |-> PyInt(10)]}

\* Contents of the answers of the first and of the second call.
AnswerTexts == {"Hello", "I cannot give medical advice"}
FollowupTexts == {"The suggested code is MG26"}

\* Texts the LLM passes as the "input" argument, as character sequences.
ArgTexts == {<<"a">>, <<"a", ",", " ", "b">>, <<>>}

\* function.arguments: serialized JSON, well formed or not; a well-formed
\* payload is an object with or without the key "input".
Arguments ==
    {[wellformed |-> FALSE]}
    \cup {[wellformed |-> TRUE, object |-> [input |-> Chars(t)]] : t \in ArgTexts}
    \cup {[wellformed |-> TRUE, object |-> [unit |-> "x"]]}

\* The invocation request at position i of a response.
ToolCall(i, name, args) ==
    [id |-> i, function |-> [name |-> name, arguments |-> args]]

\* Requests listed after the first one.
ExtraCall(i) == ToolCall(i, "get_weather", [wellformed |-> TRUE, object |-> [unit |-> "x"]])

RECURSIVE Extras(_, _)
Extras(from, to) ==
    IF from > to THEN <<>> ELSE <<ExtraCall(from)>> \o Extras(from + 1, to)

\* The first request names the registered capability with any payload, or
\* a capability that is not registered.
FirstCalls ==
    {ToolCall(1, "query_icd_11_api", a) : a \in Arguments} \cup {ExtraCall(1)}

\* The first requests after which the response lists further requests.
ListedFirst == {ToolCall(1, "query_icd_11_api", [wellformed |-> TRUE, object |-> [input |-> Chars(<<"a">>)]]),
                ExtraCall(1)}

ToolCallLists ==
    {<<first>> : first \in FirstCalls}
    \cup {<<first>> \o Extras(2, k) : first \in ListedFirst, k \in 2..MaxToolCalls}

\* Completions of the first call: an answer, or a capability request.
FirstCompletions ==
    {[content |-> Str(t), finish_reason |-> f, tool_calls |-> <<>>, usage |-> u] :
        t \in AnswerTexts, f \in {"stop", "length"}, u \in Usages}
    \cup
    {[content |-> None, finish_reason |-> "tool_calls", tool_calls |-> tc, usage |-> u] :
        tc \in ToolCallLists, u \in Usages}

\* Completions of the second call.
SecondCompletions ==
    {[content |-> Str(t), finish_reason |-> "stop", tool_calls |-> <<>>, usage |-> u] :
        t \in FollowupTexts, u \in FollowupUsages}
    \cup
    {[content |-> None, finish_reason |-> "tool_calls",
      tool_calls |-> <<ToolCall(1, "query_icd_11_api", [wellformed |-> FALSE])>>, usage |-> u] :
        u \in FollowupUsages}

\* Faults of a call to the LLM endpoint.
LLMFaults == {[type |-> "APIConnectionError"]}

\* Bodies of the token endpoint's answer.
BearerTokens == {Str("tok1"), Str("tok2")}
TokenResponses ==
    {[access_token |-> t] : t \in BearerTokens} \cup {[error |-> "invalid_client"]}

Entities == {[theCode |-> "MG26", id |-> "http://id.who.int/icd/1"]}

RECURSIVE SeqsUpTo(_, _)
SeqsUpTo(S, n) ==
    IF n = 0 THEN {<<>>}
    ELSE SeqsUpTo(S, n - 1) \cup
         {Append(s, x) : s \in {t \in SeqsUpTo(S, n - 1) : Len(t) = n - 1}, x \in S}

SearchResponses ==
    {[status_code |-> 200, destinationEntities |-> es] : es \in SeqsUpTo(Entities, MaxEntities)}
    \cup {[status_code |-> 500]}

----------------------------------------------------------------------------
(* State *)

VARIABLES
    system_prompt,   \* value of the "System Prompt" text area
    clear_button,    \* value of the "Clear Conversation" button in the latest run
    messages,        \* st.session_state["messages"]
    generated,       \* st.session_state["generated"]
    past,            \* st.session_state["past"]
    model_name,      \* st.session_state["model_name"]
    number_tokens,   \* st.session_state["number_tokens"]
    pc,              \* position of the running turn
    prompt,          \* generate_response's argument
    completion,      \* generate_response's local completion
    second,          \* the completion of the second call
    exc,             \* the exception caught in generate_response
    ret,             \* how the latest generate_response call ended
    input,           \* query_icd_11_api's argument
    token,           \* query_icd_11_api's local token
    r,               \* query_icd_11_api's local r, the token endpoint's answer
    response,        \* query_icd_11_api's local response, the search answer
    llm_log,         \* calls to the LLM endpoint made in this turn
    invoked,         \* invocation requests executed in this turn
    http_log         \* requests to the ICD endpoints made in this turn

vars == <<system_prompt, clear_button, messages, generated, past, model_name,
          number_tokens, pc, prompt, completion, second, exc, ret, input, token,
          r, response, llm_log, invoked, http_log>>

session == <<messages, generated, past, model_name, number_tokens>>
widgets == <<system_prompt, clear_button>>
lookup == <<input, token, r, response, http_log>>

\* Mutant of seed_message: the seed is built from the default prompt text.
seed_message_default == [role |-> "system", content |-> Str(default_prompt)]

seed_message == [role |-> "system", content |-> Str(system_prompt)]

NoReturn == [kind |-> "none"]

Init ==
    /\ system_prompt = default_prompt
    /\ clear_button = FALSE
    /\ messages = <<seed_message>>
    /\ generated = <<>>
    /\ past = <<>>
    /\ model_name = <<>>
    /\ number_tokens = Unbound
    /\ pc = "AwaitingUserInput"
    /\ prompt = Unbound
    /\ completion = Unbound
    /\ second = Unbound
    /\ exc = None
    /\ ret = NoReturn
    /\ input = Unbound
    /\ token = Unbound
    /\ r = Unbound
    /\ response = Unbound
    /\ llm_log = <<>>
    /\ invoked = <<>>
    /\ http_log = <<>>

----------------------------------------------------------------------------
(* generate_response and the submit handler *)

UserMessage(p) == [role |-> "user", content |-> Str(p)]

\* completion.choices[0].message
AssistantMessage(c) == [role |-> "assistant", content |-> c.content, tool_calls |-> c.tool_calls]

ToolMessage(id, name, content) ==
    [tool_call_id |-> id, role |-> "tool", name |-> name, content |-> content]

\* Mutant of Snapshot: only the latest message is sent.
SnapshotLastOnly(msgs) == <<msgs[Len(msgs)]>>

\* messages=st.session_state["messages"]: what a call to the LLM endpoint sends.
Snapshot(msgs) == msgs

\* Mutant of SecondCallTools: the second call declares the capability too.
SecondCallToolsDeclared == tools

\* The declarations sent by the second call: the call has no tools argument.
SecondCallTools == NoTools

LLMCall(msgs, decl) == [messages |-> Snapshot(msgs), tools |-> decl]

\* Mutant of IsToolCalls: every finish signal but "stop" counts as a request.
IsToolCallsNotStop(c) == c.finish_reason # "stop"

\* if tool_calls == "tool_calls"
IsToolCalls(c) == c.finish_reason = "tool_calls"

\* Mutant of available_functions: a second capability is registered.
available_functions_two == {"query_icd_11_api", "get_weather"}

available_functions == {"query_icd_11_api"}

\* Mutant of FirstToolCall: the last listed request is taken.
LastToolCall(c) == c.tool_calls[Len(c.tool_calls)]

\* completion.choices[0].message.tool_calls[0]
FirstToolCall(c) == c.tool_calls[1]

\* function_args.get("input")
get(object, key) == IF key \in DOMAIN object THEN object[key] ELSE None

Returned(l) ==
    [kind |-> "returned", response |-> l.response, total_tokens |-> l.total_tokens,
     prompt_tokens |-> l.prompt_tokens, completion_tokens |-> l.completion_tokens]

Raised(e) == [kind |-> "raised", e |-> e]

\* The locals after the except clause has run.
ExceptLocals(e) ==
    [response |-> Format(e), total_tokens |-> None, prompt_tokens |-> None,
     completion_tokens |-> None]

\* The locals when the try block ends without a capability request.
AnswerLocals(c) ==
    [response |-> c.content, total_tokens |-> Unbound, prompt_tokens |-> Unbound,
     completion_tokens |-> Unbound]

\* The statements after the try statement, reached from the try block's end
\* and from the except clause, with the locals l and the local completion c.
FallThrough(l, c) ==
    IF c = Unbound
    THEN Raised([type |-> "UnboundLocalError", name |-> "completion"])
    ELSE Returned([l EXCEPT !.total_tokens = c.usage.total_tokens,
                            !.prompt_tokens = c.usage.prompt_tokens,
                            !.completion_tokens = c.usage.completion_tokens])

\* Mutant of CapabilityReturn: the usage of the second call is returned.
CapabilityReturnSecondUsage(s, c) ==
    [kind |-> "returned", response |-> s.content, total_tokens |-> s.usage.total_tokens,
     prompt_tokens |-> s.usage.prompt_tokens,
     completion_tokens |-> s.usage.completion_tokens]

\* The return inside the try block, after the second call answered s.
CapabilityReturn(s, c) ==
    Returned([response |-> s.content, total_tokens |-> c.usage.total_tokens,
              prompt_tokens |-> c.usage.prompt_tokens,
              completion_tokens |-> c.usage.completion_tokens])

\* Mutant of Finish: the user text is recorded whatever the outcome.
FinishPastAlways(output) ==
    /\ ret' = output
    /\ pc' = "AwaitingUserInput"
    /\ past' = Append(past, prompt)
    /\ IF output.kind = "returned"
       THEN /\ generated' = Append(generated, output.response)
            /\ model_name' = Append(model_name, DEPLOYMENT)
       ELSE UNCHANGED <<generated, model_name>>

\* generate_response ends with output: the submit handler records a
\* returned output; an exception ends the script run.
Finish(output) ==
    /\ ret' = output
    /\ pc' = "AwaitingUserInput"
    /\ IF output.kind = "returned"
       THEN /\ past' = Append(past, prompt)
            /\ generated' = Append(generated, output.response)
            /\ model_name' = Append(model_name, DEPLOYMENT)
       ELSE UNCHANGED <<past, generated, model_name>>

\* The exception e is raised inside the try block.
Catch(e) ==
    /\ exc' = e
    /\ Finish(FallThrough(ExceptLocals(e), completion))

\* "Send" with a non-empty text: generate_response up to its first LLM call.
Submit(user_input) ==
    /\ pc = "AwaitingUserInput"
    /\ Len(messages) < MaxTranscript
    /\ clear_button' = FALSE
    /\ messages' = Append(messages, UserMessage(user_input))
    /\ prompt' = Str(user_input)
    /\ completion' = Unbound
    /\ second' = Unbound
    /\ exc' = None
    /\ ret' = NoReturn
    /\ input' = Unbound
    /\ token' = Unbound
    /\ r' = Unbound
    /\ response' = Unbound
    /\ llm_log' = <<>>
    /\ invoked' = <<>>
    /\ http_log' = <<>>
    /\ pc' = "LLMCallPending"
    /\ UNCHANGED <<system_prompt, generated, past, model_name, number_tokens>>

\* The first LLM call raises.
FirstCallFails(e) ==
    /\ pc = "LLMCallPending"
    /\ llm_log' = Append(llm_log, LLMCall(messages, tools))
    /\ Catch(e)
    /\ UNCHANGED <<widgets, messages, number_tokens, prompt, completion, second,
                   input, token, r, response, invoked, http_log>>

\* The first LLM call answers without requesting a capability.
FirstCallAnswers(c) ==
    /\ pc = "LLMCallPending"
    /\ ~IsToolCalls(c)
    /\ llm_log' = Append(llm_log, LLMCall(messages, tools))
    /\ completion' = c
    /\ Finish(FallThrough(AnswerLocals(c), c))
    /\ UNCHANGED <<widgets, messages, number_tokens, prompt, second, exc,
                   input, token, r, response, invoked, http_log>>

\* The first LLM call requests a capability: the assistant message is recorded.
FirstCallRequests(c) ==
    /\ pc = "LLMCallPending"
    /\ IsToolCalls(c)
    /\ llm_log' = Append(llm_log, LLMCall(messages, tools))
    /\ completion' = c
    /\ messages' = Append(messages, AssistantMessage(c))
    /\ pc' = "CapabilityRequested"
    /\ UNCHANGED <<widgets, generated, past, model_name, number_tokens, prompt,
                   second, exc, ret, input, token, r, response, invoked, http_log>>

\* The exception raised while resolving the request, None when it resolves.
ResolveError(c) ==
    IF c.tool_calls = <<>>
    THEN [type |-> "IndexError"]
    ELSE LET function == FirstToolCall(c).function
         IN  IF function.name \notin available_functions
             THEN [type |-> "KeyError", key |-> function.name]
             ELSE IF ~function.arguments.wellformed
                  THEN [type |-> "JSONDecodeError"]
                  ELSE None

\* The requested capability does not resolve.
DispatchRaises ==
    /\ pc = "CapabilityRequested"
    /\ ResolveError(completion) # None
    /\ Catch(ResolveError(completion))
    /\ UNCHANGED <<widgets, messages, number_tokens, prompt, completion, second,
                   lookup, llm_log, invoked>>

\* function_to_call(input=function_args.get("input")) is entered.
DispatchCalls ==
    /\ pc = "CapabilityRequested"
    /\ ResolveError(completion) = None
    /\ invoked' = Append(invoked, FirstToolCall(completion))
    /\ input' = get(FirstToolCall(completion).function.arguments.object, "input")
    /\ token' = Unbound
    /\ r' = Unbound
    /\ response' = Unbound
    /\ pc' = "Authenticating"
    /\ UNCHANGED <<widgets, session, prompt, completion, second, exc, ret,
                   llm_log, http_log>>

----------------------------------------------------------------------------
(* query_icd_11_api, called from generate_response *)

TOKEN_ENDPOINT == "https://icdaccessmanagement.who.int/connect/token"
SEARCH_ENDPOINT == "https://id.who.int/icd/release/11/2019-04/mms/search"

Return(v) == [kind |-> "return", value |-> v]
Raise(e) == [kind |-> "raise", e |-> e]

\* for code_ in potential_codes: code_mappings[word].update({code: link}),
\* then return json.dumps(code_mappings).
RECURSIVE UpdateAll(_, _, _)
UpdateAll(code_mappings, word, potential_codes) ==
    IF potential_codes = <<>>
    THEN Return(dumps(code_mappings))
    ELSE IF word \notin DOMAIN code_mappings
         THEN Raise([type |-> "KeyError", word |-> word])
         ELSE LET code_ == Head(potential_codes)
                  updated == (code_.theCode :> code_.id) @@ code_mappings[word]
              IN  UpdateAll([code_mappings EXCEPT ![word] = updated], word,
                            Tail(potential_codes))

\* Mutant of MappingKey: the word is registered with its commas removed.
MappingKeyStripped(word) == replace(word)

\* The key under which an iteration of the loop registers its word.
MappingKey(word) == word

\* The query string an iteration of the loop sends for its word.
Query(word) == replace(word)

\* One iteration of the loop over input.split(), started with the mapping
\* code_mappings, after its search request was answered.
Iteration(code_mappings, word, answer) ==
    IF answer.status_code = 200
    THEN UpdateAll((MappingKey(word) :> <<>>) @@ code_mappings, Query(word),
                   answer.destinationEntities)
    ELSE Return(None)

\* Mutant of RecordTool: the tool message takes the place of the last entry.
RecordToolOverwrite(msgs, c, content) ==
    [msgs EXCEPT ![Len(msgs)] =
        ToolMessage(c.tool_calls[1].id, c.tool_calls[1].function.name, content)]

\* Mutant of RecordTool: the message is correlated with the last listed request.
RecordToolLastId(msgs, c, content) ==
    Append(msgs, ToolMessage(c.tool_calls[Len(c.tool_calls)].id,
                             FirstToolCall(c).function.name, content))

\* The tool-role message that carries the capability's result.
RecordTool(msgs, c, content) ==
    Append(msgs, ToolMessage(c.tool_calls[1].id, FirstToolCall(c).function.name, content))

\* query_icd_11_api returns v: the tool message is recorded.
LookupReturns(v) ==
    /\ messages' = RecordTool(messages, completion, v)
    /\ pc' = "LLMFollowupPending"
    /\ UNCHANGED <<generated, past, model_name, exc, ret>>

\* query_icd_11_api ends with the outcome o.
LookupEnds(o) ==
    IF o.kind = "raise"
    THEN Catch(o.e) /\ UNCHANGED messages
    ELSE LookupReturns(o.value)

TokenRequest == [method |-> "POST", url |-> TOKEN_ENDPOINT]
\* Mutant of SearchRequest: the request carries a token kept from elsewhere.
SearchRequestKeptToken(q, bearer) ==
    [method |-> "GET", url |-> SEARCH_ENDPOINT, q |-> q, Authorization |-> Str("tok1")]

SearchRequest(q, bearer) ==
    [method |-> "GET", url |-> SEARCH_ENDPOINT, q |-> q, Authorization |-> bearer]

\* The token endpoint's answer has no access_token.
AuthFails(answer) ==
    /\ pc = "Authenticating"
    /\ "access_token" \notin DOMAIN answer
    /\ r' = answer
    /\ http_log' = Append(http_log, TokenRequest)
    /\ Catch([type |-> "KeyError", key |-> "access_token"])
    /\ UNCHANGED <<widgets, messages, number_tokens, prompt, completion, second,
                   input, token, response, llm_log, invoked>>

\* What input.split() yields, or the exception it raises.
Words(in) ==
    IF in = None
    THEN Raise([type |-> "AttributeError", name |-> "split"])
    ELSE Return(split(in.chars))

\* The loop makes no search request: split cannot be called, or yields no word.
NoWords(in) == IF Words(in).kind = "raise" THEN TRUE ELSE Words(in).value = <<>>

\* The token is obtained and the loop has nothing to iterate over.
AuthNoSearch(answer) ==
    /\ pc = "Authenticating"
    /\ "access_token" \in DOMAIN answer
    /\ NoWords(input)
    /\ http_log' = Append(http_log, TokenRequest)
    /\ r' = answer
    /\ token' = answer.access_token
    /\ LookupEnds(IF Words(input).kind = "raise" THEN Words(input) ELSE Return(None))
    /\ UNCHANGED <<widgets, number_tokens, prompt, completion, second, input,
                   response, llm_log, invoked>>

\* The token is obtained and the loop reaches its first search request.
AuthSearches(answer) ==
    /\ pc = "Authenticating"
    /\ "access_token" \in DOMAIN answer
    /\ ~NoWords(input)
    /\ http_log' = Append(http_log, TokenRequest)
    /\ r' = answer
    /\ token' = answer.access_token
    /\ pc' = "Searching"
    /\ UNCHANGED <<widgets, session, prompt, completion, second, exc, ret, input,
                   response, llm_log, invoked>>

\* The search request of the loop's first iteration is answered: both
\* branches of the iteration leave the function.
Search(answer) ==
    /\ pc = "Searching"
    /\ response' = answer
    /\ LET word == Head(split(input.chars))
       IN  /\ http_log' = Append(http_log, SearchRequest(Query(word), token))
           /\ LookupEnds(Iteration(<<>>, word, answer))
    /\ UNCHANGED <<widgets, number_tokens, prompt, completion, second, input, token,
                   r, llm_log, invoked>>

\* The second LLM call raises.
SecondCallFails(e) ==
    /\ pc = "LLMFollowupPending"
    /\ llm_log' = Append(llm_log, LLMCall(messages, SecondCallTools))
    /\ Catch(e)
    /\ UNCHANGED <<widgets, messages, number_tokens, prompt, completion, second,
                   lookup, invoked>>

\* Mutant of SecondCallAnswers: a request in the second response is taken up
\* as the first one was.
SecondCallAnswersLoops(s) ==
    /\ pc = "LLMFollowupPending"
    /\ llm_log' = Append(llm_log, LLMCall(messages, SecondCallTools))
    /\ IF IsToolCalls(s)
       THEN /\ completion' = s
            /\ messages' = Append(messages, AssistantMessage(s))
            /\ pc' = "CapabilityRequested"
            /\ UNCHANGED <<widgets, generated, past, model_name, number_tokens, prompt,
                           second, exc, ret, lookup, invoked>>
       ELSE /\ second' = s
            /\ Finish(CapabilityReturn(s, completion))
            /\ UNCHANGED <<widgets, messages, number_tokens, prompt, completion, exc,
                           lookup, invoked>>

\* The second LLM call answers.
SecondCallAnswers(s) ==
    /\ pc = "LLMFollowupPending"
    /\ llm_log' = Append(llm_log, LLMCall(messages, SecondCallTools))
    /\ second' = s
    /\ Finish(CapabilityReturn(s, completion))
    /\ UNCHANGED <<widgets, messages, number_tokens, prompt, completion, exc,
                   lookup, invoked>>

----------------------------------------------------------------------------
(* The other script runs *)

\* A script run that does not call generate_response: nothing of the
\* previous run's call is left.
NoTurn ==
    /\ prompt' = Unbound
    /\ completion' = Unbound
    /\ second' = Unbound
    /\ exc' = None
    /\ ret' = NoReturn
    /\ input' = Unbound
    /\ token' = Unbound
    /\ r' = Unbound
    /\ response' = Unbound
    /\ llm_log' = <<>>
    /\ invoked' = <<>>
    /\ http_log' = <<>>
    /\ UNCHANGED pc

\* "Clear Conversation" is pressed.
Clear ==
    /\ pc = "AwaitingUserInput"
    /\ clear_button' = TRUE
    /\ generated' = <<>>
    /\ past' = <<>>
    /\ messages' = <<seed_message>>
    /\ number_tokens' = List(<<>>)
    /\ model_name' = <<>>
    /\ NoTurn
    /\ UNCHANGED system_prompt

\* The system prompt text is edited: a run that finds the session initialised.
EditPrompt(p) ==
    /\ pc = "AwaitingUserInput"
    /\ system_prompt' = p
    /\ clear_button' = FALSE
    /\ NoTurn
    /\ UNCHANGED session

Next ==
    \/ \E user_input \in UserInputs : Submit(user_input)
    \/ \E e \in LLMFaults : FirstCallFails(e)
    \/ \E c \in FirstCompletions : FirstCallAnswers(c)
    \/ \E c \in FirstCompletions : FirstCallRequests(c)
    \/ DispatchRaises
    \/ DispatchCalls
    \/ \E answer \in TokenResponses : AuthFails(answer)
    \/ \E answer \in TokenResponses : AuthNoSearch(answer)
    \/ \E answer \in TokenResponses : AuthSearches(answer)
    \/ \E answer \in SearchResponses : Search(answer)
    \/ \E e \in LLMFaults : SecondCallFails(e)
    \/ \E s \in SecondCompletions : SecondCallAnswers(s)
    \/ Clear
    \/ \E p \in Prompts : EditPrompt(p)

Spec == Init /\ [][Next]_vars

\* The steps of a running generate_response call.
TurnStep ==
    \/ \E e \in LLMFaults : FirstCallFails(e)
    \/ \E c \in FirstCompletions : FirstCallAnswers(c)
    \/ \E c \in FirstCompletions : FirstCallRequests(c)
    \/ DispatchRaises
    \/ DispatchCalls
    \/ \E answer \in TokenResponses : AuthFails(answer)
    \/ \E answer \in TokenResponses : AuthNoSearch(answer)
    \/ \E answer \in TokenResponses : AuthSearches(answer)
    \/ \E answer \in SearchResponses : Search(answer)
    \/ \E e \in LLMFaults : SecondCallFails(e)
    \/ \E s \in SecondCompletions : SecondCallAnswers(s)

\* "Send" on a transcript that holds the seed message only.
FreshSubmit(user_input) ==
    /\ Len(messages) = 1
    /\ Submit(user_input)

\* Sessions in which every turn starts on a fresh transcript.
NextFresh ==
    \/ \E user_input \in UserInputs : FreshSubmit(user_input)
    \/ TurnStep
    \/ Clear
    \/ \E p \in Prompts : EditPrompt(p)

\* The script runs synchronously and every external call returns or raises:
\* a running generate_response call takes its next step, which moves pc.
FairSpec == Init /\ [][NextFresh]_vars /\ WF_pc(TurnStep)

----------------------------------------------------------------------------
(* query_icd_11_api on every input text *)

\* The longest input text of a call.
MaxTextLen == 4

\* The characters of an input text: letters, the comma, whitespace.
TextChars == {"a", "b", ",", " "}

Texts == SeqsUpTo(TextChars, MaxTextLen)

\* The payloads the lookup is called with: any text, or no "input" key.
LookupArguments ==
    {[wellformed |-> TRUE, object |-> [input |-> Chars(t)]] : t \in Texts}
    \cup {[wellformed |-> TRUE, object |-> [unit |-> "x"]]}

\* The first completion that requests the lookup with the payload a.
LookupCompletion(a) ==
    [content |-> None, finish_reason |-> "tool_calls",
     tool_calls |-> <<ToolCall(1, "query_icd_11_api", a)>>,
     usage |-> [total_tokens |-> PyInt(30), prompt_tokens |-> PyInt(20),
                completion_tokens |-> PyInt(10)]]

\* The first turn of a session at the entry of query_icd_11_api: the user
\* message and the assistant's request are recorded, the call is entered.
InitLookup ==
    \E a \in LookupArguments :
        /\ system_prompt = default_prompt
        /\ clear_button = FALSE
        /\ messages = <<seed_message, UserMessage("code fever"),
                        AssistantMessage(LookupCompletion(a))>>
        /\ generated = <<>>
        /\ past = <<>>
        /\ model_name = <<>>
        /\ number_tokens = Unbound
        /\ pc = "Authenticating"
        /\ prompt = Str("code fever")
        /\ completion = LookupCompletion(a)
        /\ second = Unbound
        /\ exc = None
        /\ ret = NoReturn
        /\ input = get(a.object, "input")
        /\ token = Unbound
        /\ r = Unbound
        /\ response = Unbound
        /\ llm_log = <<LLMCall(<<seed_message, UserMessage("code fever")>>, tools)>>
        /\ invoked = <<FirstToolCall(LookupCompletion(a))>>
        /\ http_log = <<>>

\* The call runs until it returns or raises.
NextLookup ==
    \/ \E answer \in TokenResponses : AuthFails(answer)
    \/ \E answer \in TokenResponses : AuthNoSearch(answer)
    \/ \E answer \in TokenResponses : AuthSearches(answer)
    \/ \E answer \in SearchResponses : Search(answer)

SpecLookup == InitLookup /\ [][NextLookup]_vars

----------------------------------------------------------------------------
(* Vocabulary of the properties *)

IsPrefix(s, t) == Len(s) <= Len(t) /\ SubSeq(t, 1, Len(s)) = s

Last(s) == s[Len(s)]

\* generate_response has just ended and no other script run has followed.
TurnOver == pc = "AwaitingUserInput" /\ ret # NoReturn

\* An exception was caught in the turn.
TurnFailed == exc # None

\* The first LLM call of the turn has answered with a capability request.
CapabilityPath == completion # Unbound /\ completion.finish_reason = "tool_calls"

\* The first LLM call of the turn has answered without a capability request.
DirectPath == completion # Unbound /\ completion.finish_reason # "tool_calls"

\* The messages the turn has added after its user message.
AddedByTurn == SubSeq(messages, Len(llm_log[1].messages) + 1, Len(messages))

IsToolRole(m) == m.role = "tool"

UsageOf(c) ==
    <<c.usage.total_tokens, c.usage.prompt_tokens, c.usage.completion_tokens>>

UsageReturned == <<ret.total_tokens, ret.prompt_tokens, ret.completion_tokens>>

----------------------------------------------------------------------------
(* C1 *)

\* C1 (as claimed): generate_response never raises; a turn in which a fault
\* occurred returns normally with a text that embeds the error description.
C1_NeverRaises ==
    TurnOver => /\ ret.kind = "returned"
                /\ TurnFailed => ret.response = Format(exc)

----------------------------------------------------------------------------
(* C2 *)

\* C2 (as claimed): whenever a turn fails and generate_response returns, the
\* text is the error message and the three usage values are None.
C2_FailedUsageAbsent ==
    (TurnOver /\ TurnFailed /\ ret.kind = "returned") =>
        /\ ret.response = Format(exc)
        /\ UsageReturned = <<None, None, None>>

----------------------------------------------------------------------------
(* C3 *)

\* C3: the transcript always starts with a system message; turns and prompt
\* edits leave that message as it is; right after a clear action the
\* transcript is exactly the one system message built from the current
\* system-prompt text.
C3_SystemMessage ==
    /\ [](/\ Len(messages) >= 1
          /\ messages[1].role = "system"
          /\ clear_button =>
                messages = <<[role |-> "system", content |-> Str(system_prompt)]>>)
    /\ [][~clear_button' => messages'[1] = messages[1]]_vars

\* A clear action after the prompt was edited reseeds with the edited text.
C3_Witness ==
    /\ clear_button
    /\ system_prompt = "edited prompt"
    /\ messages = <<[role |-> "system", content |-> Str("edited prompt")]>>

----------------------------------------------------------------------------
(* C4 *)

\* C4: every step other than a clear action extends the transcript: the
\* transcript before the step is a prefix of the transcript after it.
C4_AppendOnly == [][~clear_button' => IsPrefix(messages, messages')]_vars

\* A turn has added its user, assistant and tool messages and has failed in
\* its second LLM call.
C4_Witness ==
    /\ TurnOver /\ TurnFailed
    /\ Len(llm_log) = 2
    /\ Len(AddedByTurn) = 2

----------------------------------------------------------------------------
(* C5 *)

\* C5: when the first response is a direct answer, the turn ends there: no
\* capability invocation, no ICD request, no second LLM call, nothing added
\* to the transcript after the user message, and the call returns that
\* response's content with that call's usage.
C5_DirectAnswer ==
    DirectPath =>
        /\ TurnOver
        /\ invoked = <<>>
        /\ http_log = <<>>
        /\ Len(llm_log) = 1
        /\ second = Unbound
        /\ messages = llm_log[1].messages
        /\ Last(messages) = [role |-> "user", content |-> prompt]
        /\ ret.kind = "returned"
        /\ ret.response = completion.content
        /\ UsageReturned = UsageOf(completion)

\* A direct answer cut off by the length limit has been returned.
C5_Witness ==
    /\ DirectPath
    /\ completion.finish_reason = "length"
    /\ ret.kind = "returned"
    /\ ret.response = Str("Hello")

----------------------------------------------------------------------------
(* C6 *)

\* The tool-role messages the turn has recorded.
ToolMessagesOfTurn == SelectSeq(AddedByTurn, IsToolRole)

\* The first listed request names the registered capability and carries
\* well-formed arguments.
FirstRequestResolves ==
    /\ completion.tool_calls[1].function.name = "query_icd_11_api"
    /\ completion.tool_calls[1].function.arguments.wellformed

----------------------------------------------------------------------------
(* C7 *)

\* C7: a turn makes at most two LLM calls and at most one capability
\* invocation; the first call carries the declarations, the second carries
\* none, and the second response ends the turn whatever it contains.
C7_TwoCallsAtMost ==
    /\ Len(llm_log) <= 2
    /\ Len(invoked) <= 1
    /\ Len(llm_log) >= 1 => llm_log[1].tools # <<>>
    /\ Len(llm_log) = 2 => llm_log[2].tools = <<>> /\ pc = "AwaitingUserInput"
    /\ second # Unbound =>
          /\ TurnOver
          /\ Len(llm_log) = 2
          /\ ret.kind = "returned"
          /\ ret.response = second.content

\* The second response itself asked for a capability, and the turn ended.
C7_Witness ==
    /\ second # Unbound
    /\ second.finish_reason = "tool_calls"
    /\ TurnOver
    /\ Len(invoked) = 1

----------------------------------------------------------------------------
(* C8 *)

\* C8: when the second LLM call answers, generate_response returns the
\* second response's content with the usage of the first call.
C8_SecondTextFirstUsage ==
    (TurnOver /\ second # Unbound) =>
        /\ ret.kind = "returned"
        /\ ret.response = second.content
        /\ UsageReturned = UsageOf(completion)
        /\ generated # <<>> /\ Last(generated) = second.content

\* The lookup returned codes and the second call answered with a text.
C8_Witness ==
    /\ TurnOver
    /\ second # Unbound
    /\ second.content = Str("The suggested code is MG26")
    /\ Last(messages).role = "tool"
    /\ Last(messages).content = dumps(<<"a">> :> ("MG26" :> "http://id.who.int/icd/1"))
    /\ UsageOf(second) # UsageOf(completion)

----------------------------------------------------------------------------
(* C9 *)

\* C9: no rollback.  When a turn ends in failure its user message is where
\* the turn put it, with everything before it; script runs other than a
\* clear action and a submission leave the transcript alone; a submission
\* appends its user message to the transcript it finds; and the first LLM
\* call sends the whole transcript, which ends with that user message.
C9_NoRollback ==
    /\ []((TurnOver /\ TurnFailed) =>
            /\ IsPrefix(llm_log[1].messages, messages)
            /\ Last(llm_log[1].messages) = [role |-> "user", content |-> prompt])
    /\ [][(pc = "AwaitingUserInput" /\ pc' = "AwaitingUserInput" /\ ~clear_button')
            => messages' = messages]_vars
    /\ [][(pc = "AwaitingUserInput" /\ pc' = "LLMCallPending")
            => messages' = Append(messages, [role |-> "user", content |-> prompt'])]_vars
    /\ [][(pc = "LLMCallPending" /\ pc' # "LLMCallPending")
            => /\ Len(llm_log') = 1
               /\ llm_log'[1].messages = messages
               /\ Last(messages) = [role |-> "user", content |-> prompt]]_vars

\* The first LLM call of a turn has sent the user message of an earlier turn
\* that failed after its capability request, followed by the new one.
C9_Witness ==
    /\ Len(llm_log) >= 1
    /\ Len(llm_log[1].messages) = 4
    /\ llm_log[1].messages[2] = [role |-> "user", content |-> Str("code fever")]
    /\ llm_log[1].messages[3].role = "assistant"
    /\ llm_log[1].messages[4] = [role |-> "user", content |-> Str("hello")]

----------------------------------------------------------------------------
(* C10 *)

\* C10 (as claimed): when generate_response has returned, the returned text
\* is in the transcript as the assistant's message that ends the turn.
C10_AnswerRecorded ==
    (TurnOver /\ ret.kind = "returned") =>
        /\ Last(messages).role = "assistant"
        /\ Last(messages).content = ret.response

----------------------------------------------------------------------------
(* C11 *)

\* query_icd_11_api has returned: its value is the tool message's content.
LookupReturned == pc = "LLMFollowupPending"

LookupValue == Last(messages).content

\* The whitespace-split tokens of the call's input text.
TokensOfInput == {split(input.chars)[i] : i \in DOMAIN split(input.chars)}

IsSearch(req) == req.method = "GET"

SearchesOfCall == SelectSeq(http_log, IsSearch)

\* C11: a call makes at most one search request, for the first token with
\* its commas removed; when it returns a mapping, the key set has at most
\* one key, the key is a whitespace-split token of the input, and the call
\* returned right after the one search request, which was answered 200.
C11_KeysAreTokens ==
    /\ Len(SearchesOfCall) <= 1
    /\ SearchesOfCall # <<>> =>
          SearchesOfCall[1].q = SelectSeq(split(input.chars)[1], IsNotComma)
    /\ (LookupReturned /\ "json" \in DOMAIN LookupValue) =>
          /\ DOMAIN LookupValue.json \subseteq TokensOfInput
          /\ Cardinality(DOMAIN LookupValue.json) <= 1
          /\ Len(SearchesOfCall) = 1
          /\ Len(http_log) = 2
          /\ response.status_code = 200

\* A two-token text whose first token carries a comma: the mapping returned
\* has the first token as its key and the second token was not queried.
C11_Witness ==
    /\ LookupReturned
    /\ input = Chars(<<"a", ",", " ", "b">>)
    /\ "json" \in DOMAIN LookupValue
    /\ DOMAIN LookupValue.json = {<<"a", ",">>}
    /\ Len(SearchesOfCall) = 1

----------------------------------------------------------------------------
(* C12 *)

\* The first whitespace-split token of the call's input text.
FirstToken == split(input.chars)[1]

\* The search request was answered 200 with a non-empty list of entities.
AnsweredWithCodes ==
    /\ response # Unbound
    /\ response.status_code = 200
    /\ response.destinationEntities # <<>>

\* C12 (as claimed): when the first token carries a comma and its search is
\* answered 200 with entities, the call returns a mapping whose only key is
\* the comma-stripped token, mapped to {theCode: id} for every entity, after
\* one search request for the comma-stripped token.
C12_CommaTokenCodes ==
    (AnsweredWithCodes /\ FirstToken # SelectSeq(FirstToken, IsNotComma)) =>
        /\ LookupReturned
        /\ "json" \in DOMAIN LookupValue
        /\ DOMAIN LookupValue.json = {SelectSeq(FirstToken, IsNotComma)}
        /\ \A i \in DOMAIN response.destinationEntities :
              LET code_ == response.destinationEntities[i]
                  codes == LookupValue.json[SelectSeq(FirstToken, IsNotComma)]
              IN  code_.theCode \in DOMAIN codes /\ codes[code_.theCode] = code_.id
        /\ Len(SearchesOfCall) = 1
        /\ SearchesOfCall[1].q = SelectSeq(FirstToken, IsNotComma)

----------------------------------------------------------------------------
(* C13 *)

\* C13 (as claimed): when the search for the first token is answered with a
\* status other than 200, the call raises instead of returning a value, and
\* no later token is queried.
C13_NonOkSignalsFailure ==
    (response # Unbound /\ response.status_code # 200) =>
        /\ ~LookupReturned
        /\ TurnFailed
        /\ Len(SearchesOfCall) = 1

----------------------------------------------------------------------------
(* C14 *)

\* C14 (as claimed): when the search request of the turn is answered with a
\* status other than 200, the turn fails there: no tool message is
\* recorded, no second LLM call is made, and the text returned is the error
\* message.
C14_FailedSearchFailsTurn ==
    (response # Unbound /\ response.status_code # 200) =>
        /\ ToolMessagesOfTurn = <<>>
        /\ Len(llm_log) = 1
        /\ TurnOver
        /\ TurnFailed
        /\ ret.kind = "returned" /\ ret.response = Format(exc)

----------------------------------------------------------------------------
(* C15 *)

\* The first response of the turn requests, first in its list, a capability
\* that is not a key of available_functions.
UnknownRequested ==
    /\ CapabilityPath
    /\ completion.tool_calls # <<>>
    /\ completion.tool_calls[1].function.name # "query_icd_11_api"

\* C15: when the first LLM response requests a capability that is not
\* registered, no capability is executed, no authorization or search request
\* is issued, no second LLM call is made, no tool message is recorded, and
\* the next step of the turn ends it with the error text built from the
\* KeyError on the requested name.
C15_UnknownCapability ==
    UnknownRequested =>
        /\ invoked = <<>>
        /\ http_log = <<>>
        /\ Len(llm_log) = 1
        /\ second = Unbound
        /\ ToolMessagesOfTurn = <<>>
        /\ pc \in {"CapabilityRequested", "AwaitingUserInput"}
        /\ pc = "AwaitingUserInput" =>
              /\ TurnFailed
              /\ exc = [type |-> "KeyError", key |-> completion.tool_calls[1].function.name]
              /\ ret.kind = "returned"
              /\ ret.response = Format(exc)
              /\ Last(generated) = Format(exc)

C15_Witness ==
    /\ UnknownRequested
    /\ TurnOver
    /\ exc = [type |-> "KeyError", key |-> "get_weather"]
    /\ ret.response = Format([type |-> "KeyError", key |-> "get_weather"])
    /\ invoked = <<>>

----------------------------------------------------------------------------
(* C16 *)

\* C16: on the capability path the transcript grows in the order user
\* message, assistant message carrying the request, one tool-role message
\* with the id of the first request and the name of the invoked capability;
\* the first LLM call sees a snapshot ending with the user message, the
\* capability executes only after the assistant message is appended, and the
\* second LLM call is made only after the tool message is appended and sees
\* a snapshot ending with it.
C16_TranscriptOrder ==
    CapabilityPath =>
        /\ Last(llm_log[1].messages) = UserMessage(prompt.text)
        /\ Len(AddedByTurn) \in 1..2
        /\ AddedByTurn[1] = AssistantMessage(completion)
        /\ invoked # <<>> => messages[Len(llm_log[1].messages) + 1] = AssistantMessage(completion)
        /\ Len(AddedByTurn) = 2 =>
              /\ invoked = <<completion.tool_calls[1]>>
              /\ AddedByTurn[2].role = "tool"
              /\ AddedByTurn[2].tool_call_id = completion.tool_calls[1].id
              /\ AddedByTurn[2].name = invoked[1].function.name
        /\ pc \in {"CapabilityRequested", "Authenticating", "Searching"} =>
              Len(AddedByTurn) = 1
        /\ Len(llm_log) \in 1..2
        /\ Len(llm_log) = 2 =>
              /\ Len(AddedByTurn) = 2
              /\ llm_log[2].messages = messages
              /\ IsToolRole(Last(llm_log[2].messages))

C16_Witness ==
    /\ CapabilityPath
    /\ TurnOver
    /\ Len(completion.tool_calls) = 2
    /\ Len(llm_log) = 2
    /\ Last(messages).role = "tool"
    /\ Last(messages).tool_call_id = 1
    /\ Last(messages).name = "query_icd_11_api"
    /\ messages[Len(messages) - 1].role = "assistant"
    /\ messages[Len(messages) - 2] = UserMessage(prompt.text)

----------------------------------------------------------------------------
(* C17 *)

Idle == pc = "AwaitingUserInput"

\* The positions a turn can move to from position p.
Successors(p) ==
    CASE p = "AwaitingUserInput"   -> {"LLMCallPending"}
      [] p = "LLMCallPending"      -> {"CapabilityRequested", "AwaitingUserInput"}
      [] p = "CapabilityRequested" -> {"Authenticating", "AwaitingUserInput"}
      [] p = "Authenticating"      -> {"Searching", "LLMFollowupPending", "AwaitingUserInput"}
      [] p = "Searching"           -> {"LLMFollowupPending", "AwaitingUserInput"}
      [] p = "LLMFollowupPending"  -> {"AwaitingUserInput"}

\* C17: every step that moves the turn follows the per-turn state machine
\* (the capability is entered only from CapabilityRequested, the second call
\* only after the capability has returned, and no position is entered twice
\* in a turn), a turn that ended left a return value or an exception, and a
\* started turn always reaches its end.
C17_TurnTerminates ==
    /\ [][pc' \in Successors(pc)]_pc
    /\ [][Idle' => ret' # NoReturn]_pc
    /\ ~Idle ~> Idle

C17_Witness ==
    /\ TurnOver
    /\ CapabilityPath
    /\ second # Unbound
    /\ Len(http_log) = 2
    /\ Len(llm_log) = 2
    /\ ret.kind = "returned"

----------------------------------------------------------------------------
(* C18 *)

IsAuth(req) == req.method = "POST"
AuthsOfCall == SelectSeq(http_log, IsAuth)

\* C18: a call of query_icd_11_api starts with no token, makes exactly one
\* authentication request, which is its first request, and every search
\* request of the call carries the token that this request obtained.
C18_FreshAuthentication ==
    /\ invoked = <<>> => http_log = <<>> /\ token = Unbound
    /\ pc = "Authenticating" => http_log = <<>> /\ token = Unbound /\ r = Unbound
    /\ Len(AuthsOfCall) <= 1
    /\ (invoked # <<>> /\ pc # "Authenticating") =>
          /\ Len(AuthsOfCall) = 1
          /\ http_log[1] = TokenRequest
          /\ r # Unbound
    /\ \A i \in DOMAIN http_log :
          IsSearch(http_log[i]) =>
              /\ i > 1
              /\ "access_token" \in DOMAIN r
              /\ token = r.access_token
              /\ http_log[i].Authorization = token

C18_Witness ==
    /\ Len(past) = 1
    /\ pc = "LLMFollowupPending"
    /\ Len(http_log) = 2
    /\ http_log[1] = TokenRequest
    /\ r = [access_token |-> Str("tok2")]
    /\ http_log[2].Authorization = Str("tok2")

----------------------------------------------------------------------------
(* C19 *)

\* The message at position i carries an invocation request.
CarriesRequest(i) ==
    /\ messages[i].role = "assistant"
    /\ "tool_calls" \in DOMAIN messages[i]
    /\ messages[i].tool_calls # <<>>

\* C19 (as claimed): when a turn has ended, every assistant message of the
\* transcript that carries an invocation request is immediately followed by
\* a tool-role message with the id of that request.
C19_RequestsAnswered ==
    Idle =>
        \A i \in DOMAIN messages :
            CarriesRequest(i) =>
                /\ i + 1 \in DOMAIN messages
                /\ messages[i + 1].role = "tool"
                /\ messages[i + 1].tool_call_id = messages[i].tool_calls[1].id

----------------------------------------------------------------------------
(* C20 *)

display == <<past, generated, model_name>>

\* C20: the three display lists always have the same length; a turn that
\* returns extends each by one entry (the user text, the text returned, the
\* deployment name), a clear action empties all three and resets the
\* transcript to the seed message, and no other step changes them: their
\* length is the number of turns returned since the last clear action.
C20_DisplayLists ==
    /\ [](/\ Len(past) = Len(generated)
          /\ Len(generated) = Len(model_name)
          /\ clear_button =>
                display = <<<<>>, <<>>, <<>>>> /\ messages = <<seed_message>>)
    /\ [][IF clear_button'
          THEN display' = <<<<>>, <<>>, <<>>>> /\ messages' = <<seed_message'>>
          ELSE IF ~Idle /\ Idle' /\ ret'.kind = "returned"
               THEN /\ past' = Append(past, Last(llm_log'[1].messages).content)
                    /\ generated' = Append(generated, ret'.response)
                    /\ model_name' = Append(model_name, DEPLOYMENT)
               ELSE UNCHANGED display]_vars

C20_Witness ==
    /\ TurnOver
    /\ ret.kind = "returned"
    /\ Len(past) = 2
    /\ past[1] # past[2]
    /\ Len(generated) = 2
    /\ generated[2] = ret.response
    /\ Len(model_name) = 2

====
